---- MODULE Spec2Model ----
(***************************************************************************)
(* scripts/branding/build-icons.py as a state machine.                     *)
(*                                                                         *)
(* One run of main() is a straight line: source check, directory creation  *)
(* and raw copies, platform gate, the Assets.car candidate loop, the       *)
(* AppIcon.icns candidate loop, the reshape of the rounded alpha into the  *)
(* container box, the three composited saves.  Rerun starts main() again   *)
(* on the files the previous run left behind.                              *)
(*                                                                         *)
(* The machine the script runs on (platform, iconutil, the state of every  *)
(* candidate bundle) is the environment.  A candidate's state is fixed the *)
(* first time the script looks at it and is the same for every later look, *)
(* in this run and in the following ones.                                  *)
(*                                                                         *)
(* Pillow is not part of the repository.  An alpha image is kept as its    *)
(* size, the tight box of its non-zero pixels and the alpha value of the   *)
(* pixel at the top-left of that box (0 for a rounded shape, 255 for a     *)
(* square one); crop, resize and paste move the box and keep that value.   *)
(***************************************************************************)
EXTENDS Integers, Sequences, FiniteSets, TLC

\* Number of candidates of each list that the model walks (the script has 5).
MaxCandidates == 2
\* Number of consecutive invocations of main().
MaxRuns == 2

ICON_CANVAS_SIZE == 1024
ICONSET_SOURCE_PNG_NAME == "icon_512x512@2x.png"

SOURCE_ICON_PATH == "branding/source/app-icon.png"
RENDERER_ICON_PATH == "src/renderer/public/branding/app-icon.png"
DESKTOP_SOURCE_COPY_PATH == "public/branding/app-icon.png"
DESKTOP_ICON_PNG_PATH == "public/branding/app-icon-desktop.png"
DESKTOP_ICON_ICO_PATH == "public/branding/icon.ico"
DESKTOP_ICON_ICNS_PATH == "public/branding/icon.icns"

OutputPaths ==
  {RENDERER_ICON_PATH, DESKTOP_SOURCE_COPY_PATH, DESKTOP_ICON_PNG_PATH,
   DESKTOP_ICON_ICO_PATH, DESKTOP_ICON_ICNS_PATH}

FilePaths == OutputPaths \cup {SOURCE_ICON_PATH}

\* Path.parent of the output paths.
Parent(path) ==
  IF path = RENDERER_ICON_PATH THEN "src/renderer/public/branding"
  ELSE "public/branding"

AllCarCandidates ==
  << "/System/Applications/App Store.app/Contents/Resources/Assets.car",
     "/System/Applications/Notes.app/Contents/Resources/Assets.car",
     "/System/Applications/Calendar.app/Contents/Resources/Assets.car",
     "/System/Applications/Music.app/Contents/Resources/Assets.car",
     "/System/Applications/Photos.app/Contents/Resources/Assets.car" >>

AllIcnsCandidates ==
  << "/System/Applications/App Store.app/Contents/Resources/AppIcon.icns",
     "/System/Applications/Notes.app/Contents/Resources/AppIcon.icns",
     "/System/Applications/Music.app/Contents/Resources/AppIcon.icns",
     "/System/Applications/Photos.app/Contents/Resources/AppIcon.icns",
     "/System/Applications/Preview.app/Contents/Resources/AppIcon.icns" >>

MACOS_ICON_CAR_CANDIDATES == SubSeq(AllCarCandidates, 1, MaxCandidates)
MACOS_ICON_ICNS_CANDIDATES == SubSeq(AllIcnsCandidates, 1, MaxCandidates)

Range(s) == {s[i] : i \in DOMAIN s}

CandidatePaths == Range(MACOS_ICON_CAR_CANDIDATES) \cup Range(MACOS_ICON_ICNS_CANDIDATES)

\* Both loaders walking the Assets.car list.
Candidates_CarOnly(list) == MACOS_ICON_CAR_CANDIDATES

Candidates(list) ==
  IF list = "car" THEN MACOS_ICON_CAR_CANDIDATES ELSE MACOS_ICON_ICNS_CANDIDATES

None == [kind |-> "None"]

-----------------------------------------------------------------------------
(* File contents and images *)

Absent == [kind |-> "absent"]
Bytes(data) == [kind |-> "bytes", data |-> data]

\* The master icons the model draws from: a PNG file and a file that is not
\* an image.
SourceContents == {Bytes("png-A"), Bytes("not-an-image")}

\* Outputs of an earlier build, made from another master icon.
Stale(path) == [kind |-> "stale", path |-> path]

\* Image.open(path).convert('RGBA') on a file's bytes.
Decode(content) ==
  IF content = Bytes("png-A") THEN [kind |-> "image", pixels |-> "A"]
  ELSE IF content = Bytes("png-B") THEN [kind |-> "image", pixels |-> "B"]
  ELSE [kind |-> "undecodable"]

NoBBox == <<>>

Png(name, readable, size, bbox, corner) ==
  [name |-> name, readable |-> readable, w |-> size, h |-> size,
   bbox |-> bbox, corner |-> corner]

ExpectedRounded == Png(ICONSET_SOURCE_PNG_NAME, TRUE, 1024, <<100, 100, 924, 924>>, 0)
ExpectedHalfSize == Png(ICONSET_SOURCE_PNG_NAME, TRUE, 512, <<56, 56, 456, 456>>, 0)
ExpectedEmpty == Png(ICONSET_SOURCE_PNG_NAME, TRUE, 1024, NoBBox, 0)
ExpectedCorrupt == Png(ICONSET_SOURCE_PNG_NAME, FALSE, 0, NoBBox, 0)
SmallRounded == Png("icon_16x16.png", TRUE, 16, <<1, 1, 15, 15>>, 0)
SmallTwin == Png("icon_16x16@1x.png", TRUE, 16, <<2, 2, 14, 14>>, 0)
LargeSquare == Png(ICONSET_SOURCE_PNG_NAME, TRUE, 1024, <<0, 0, 1024, 1024>>, 255)

\* What iconutil leaves in the iconset directory of an Assets.car.
CarIconsets ==
  { <<SmallRounded>>,
    <<ExpectedCorrupt>>,
    <<ExpectedEmpty>>,
    <<SmallRounded, ExpectedRounded>>,
    <<ExpectedHalfSize>> }

\* What iconutil leaves in the iconset directory of an AppIcon.icns, in the
\* order glob('*.png') yields the files.
IcnsIconsets ==
  { <<>>,
    <<ExpectedCorrupt>>,
    <<SmallRounded, ExpectedCorrupt>>,
    <<ExpectedEmpty>>,
    <<SmallRounded, SmallTwin, ExpectedRounded>>,
    <<LargeSquare>> }

\* Output of a failing iconutil, (stderr, stdout) as sequences of characters:
\* a message on stderr, and nothing but white space on stdout.
ToolFailures ==
  { << <<" ", "E", "\n">>, <<"o">> >>,
    << <<>>, <<" ">> >> }

Unobserved == [observed |-> FALSE]

Bundle(exists, returncode, stderr, stdout, iconset) ==
  [observed |-> TRUE, exists |-> exists, returncode |-> returncode,
   stderr |-> stderr, stdout |-> stdout, iconset |-> iconset]

BundleStates(iconsets) ==
  {Bundle(FALSE, 0, <<>>, <<>>, <<>>)}
    \cup {Bundle(TRUE, 1, f[1], f[2], <<>>) : f \in ToolFailures}
    \cup {Bundle(TRUE, 0, <<>>, <<>>, s) : s \in iconsets}

\* The states a candidate bundle of a list can be in.
MachineStates(list) ==
  IF list = "car" THEN BundleStates(CarIconsets) ELSE BundleStates(IcnsIconsets)

-----------------------------------------------------------------------------
(* Text of the diagnostics *)

IsSpace(c) == c \in {" ", "\n", "\t"}

RECURSIVE LStrip(_)
LStrip(s) == IF s # <<>> /\ IsSpace(Head(s)) THEN LStrip(Tail(s)) ELSE s

RECURSIVE RStrip(_)
RStrip(s) ==
  IF s # <<>> /\ IsSpace(s[Len(s)]) THEN RStrip(SubSeq(s, 1, Len(s) - 1)) ELSE s

\* str.strip()
Strip(s) == RStrip(LStrip(s))

\* Python's `a or b` on strings.
Or(a, b) == IF a # <<>> THEN a ELSE b

\* (exc.stderr or exc.stdout or '').strip() or 'iconutil failed'
FailureReason(stderr, stdout) ==
  Or(Strip(Or(stderr, Or(stdout, <<>>))), <<"iconutil failed">>)

\* A loader that forgets the diagnostic of a missing bundle.
RecordFailure_SkipsMissing(errors, path, reason) ==
  IF reason = <<"missing">> THEN errors
  ELSE Append(errors, [path |-> path, reason |-> reason])

\* extraction_errors.append(f'{path}: {reason}')
RecordFailure(errors, path, reason) ==
  Append(errors, [path |-> path, reason |-> reason])

\* '\n'.join(f'  - {message}' for message in extraction_errors)
FormatErrors(errors) ==
  [i \in DOMAIN errors |-> <<"  - ", errors[i].path, ": ">> \o errors[i].reason]

CarErrorHead ==
  "[branding] failed to extract macOS container bbox from native Assets.car files."
IcnsErrorHead ==
  "[branding] failed to extract macOS rounded icon shape from native AppIcon.icns files."

\* An exception: its type, the first line of its message, the lines that
\* follow, and the function of the traceback that raised it.
Raise(type, at, head, lines) ==
  [kind |-> type, at |-> at, head |-> head, lines |-> lines]

-----------------------------------------------------------------------------
(* Pillow operations on the alpha images *)

Alpha(w, h, bbox, corner) == [w |-> w, h |-> h, bbox |-> bbox, corner |-> corner]

\* Image.open(png).convert('RGBA').getchannel('A')
AlphaOf(png) == Alpha(png.w, png.h, png.bbox, png.corner)

GetBBox(img) == img.bbox

Resize(img, w, h) ==
  IF img.bbox = NoBBox THEN Alpha(w, h, NoBBox, 0)
  ELSE Alpha(w, h,
             << (img.bbox[1] * w) \div img.w, (img.bbox[2] * h) \div img.h,
                (img.bbox[3] * w) \div img.w, (img.bbox[4] * h) \div img.h >>,
             img.corner)

Crop(img, box) ==
  Alpha(box[3] - box[1], box[4] - box[2],
        IF img.bbox = NoBBox THEN NoBBox
        ELSE << img.bbox[1] - box[1], img.bbox[2] - box[2],
                img.bbox[3] - box[1], img.bbox[4] - box[2] >>,
        img.corner)

\* Image.new('L', (size, size), 0)
NewMask(size) == Alpha(size, size, NoBBox, 0)

Min(a, b) == IF a < b THEN a ELSE b

\* base.paste(img, (x, y)) on a blank base: the part of img inside the base.
Paste(base, img, x, y) ==
  IF img.bbox = NoBBox \/ x + img.bbox[1] >= base.w \/ y + img.bbox[2] >= base.h
  THEN base
  ELSE Alpha(base.w, base.h,
             << x + img.bbox[1], y + img.bbox[2],
                Min(x + img.bbox[3], base.w), Min(y + img.bbox[4], base.h) >>,
             img.corner)

\* img.getpixel((x, y)), for the pixels the image record determines.
GetPixel(img, x, y) ==
  CASE img.bbox = NoBBox -> 0
    [] img.bbox # NoBBox /\ (x < img.bbox[1] \/ x >= img.bbox[3]
                             \/ y < img.bbox[2] \/ y >= img.bbox[4]) -> 0
    [] img.bbox # NoBBox /\ x = img.bbox[1] /\ y = img.bbox[2] -> img.corner

\* for candidate in iconset_dir.glob('*.png'): ... the index of the largest
\* readable PNG, 0 for None.
RECURSIVE LargestFrom(_, _, _, _)
LargestFrom(iconset, i, largest_path, largest_area) ==
  IF i > Len(iconset) THEN largest_path
  ELSE IF ~iconset[i].readable
       THEN LargestFrom(iconset, i + 1, largest_path, largest_area)
       ELSE IF iconset[i].w * iconset[i].h > largest_area
            THEN LargestFrom(iconset, i + 1, i, iconset[i].w * iconset[i].h)
            ELSE LargestFrom(iconset, i + 1, largest_path, largest_area)

select_largest_icon_png(iconset) == LargestFrom(iconset, 1, 0, -1)

\* The PNGs on which Image.open raised OSError inside select_largest_icon_png.
Unreadable(iconset) == {i \in DOMAIN iconset : ~iconset[i].readable}

\* (iconset_dir / ICONSET_SOURCE_PNG_NAME), 0 when it does not exist.
ExpectedPng(iconset) ==
  IF \E i \in DOMAIN iconset : iconset[i].name = ICONSET_SOURCE_PNG_NAME
  THEN CHOOSE i \in DOMAIN iconset : iconset[i].name = ICONSET_SOURCE_PNG_NAME
  ELSE 0

\* The mask of the container candidate, brought to the canvas size.
ContainerMask(png) ==
  IF AlphaOf(png).w # ICON_CANVAS_SIZE \/ AlphaOf(png).h # ICON_CANVAS_SIZE
  THEN Resize(AlphaOf(png), ICON_CANVAS_SIZE, ICON_CANVAS_SIZE)
  ELSE AlphaOf(png)

reshape_mask_to_bbox(source_alpha, target_bbox) ==
  LET source_bbox == GetBBox(source_alpha)
      target_width == target_bbox[3] - target_bbox[1]
      target_height == target_bbox[4] - target_bbox[2]
  IN IF source_bbox = NoBBox
     THEN [kind |-> "raise",
           error |-> Raise("RuntimeError", "reshape", "[branding] source rounded alpha is empty", <<>>)]
     ELSE IF target_width <= 0 \/ target_height <= 0
     THEN [kind |-> "raise",
           error |-> Raise("RuntimeError", "reshape", "[branding] invalid target bbox", <<>>)]
     ELSE LET source_cropped == Crop(source_alpha, source_bbox)
              resized_shape == Resize(source_cropped, target_width, target_height)
              output_mask == Paste(NewMask(ICON_CANVAS_SIZE), resized_shape,
                                   target_bbox[1], target_bbox[2])
          IN IF GetPixel(output_mask, target_bbox[1], target_bbox[2]) # 0
             THEN [kind |-> "raise",
                   error |-> Raise("RuntimeError", "reshape",
                     "[branding] rounded shape validation failed: corner is not transparent",
                     <<>>)]
             ELSE [kind |-> "mask", mask |-> output_mask]

\* ImageOps.fit of the source onto the canvas, pasted through the mask.
build_desktop_icon_with_mask(source, mask) ==
  [kind |-> "icon", w |-> ICON_CANVAS_SIZE, h |-> ICON_CANVAS_SIZE,
   pixels |-> source.pixels, mask |-> mask]

\* image.save(path, format=...)
Save(icon, format) ==
  [kind |-> format, image |-> icon,
   sizes |-> IF format = "ICO" THEN <<16, 24, 32, 48, 64, 128, 256>> ELSE <<>>]

-----------------------------------------------------------------------------
(* State *)

VARIABLES
  platform,           \* sys.platform
  iconutil,           \* whether shutil.which('iconutil') finds the tool
  refcounting,        \* whether the runtime finalizes an object as soon as
                      \* its last reference goes
  fs,                 \* candidate path -> state of the bundle, once looked at
  files,              \* source and output paths -> content
  dirs,               \* output directories that exist
  tempDirs,           \* temporary extraction directories on disk
  pc,                 \* position of the run
  run,                \* number of the current invocation of main()
  idx,                \* index of the loop over the current candidate list
  extraction_errors,  \* list -> the loader's extraction_errors
  temp_dir,           \* the TemporaryDirectory the loader holds, or NoDir
  source,             \* the decoded master icon
  container,          \* (bbox, car_path) of load_macos_container_bbox
  rounded,            \* (alpha, icns_path) of load_macos_rounded_shape_mask
  standard_mask,      \* the mask of load_macos_standard_mask
  error,              \* the exception that ended the run
  probes,             \* candidate paths tested with exists(), in order
  calls,              \* candidate paths passed to iconutil, in order
  lookups,            \* number of shutil.which lookups of the run
  written,            \* output paths written by the run
  handled,            \* failures the run caught and continued from
  start,              \* files and dirs when the run started
  previous            \* outcomes of the finished runs

vars ==
  << platform, iconutil, refcounting, fs, files, dirs, tempDirs, pc, run, idx,
     extraction_errors, temp_dir, source, container, rounded, standard_mask,
     error, probes, calls, lookups, written, handled, start, previous >>

env == << platform, iconutil, refcounting >>

NoDir == [prefix |-> "", of |-> ""]

NoErrors == [list \in {"car", "icns"} |-> <<>>]

\* What a run leaves: its error, the five output files, and the candidates
\* it looked at and ran iconutil on.
Outcome ==
  [error |-> error, outputs |-> [p \in OutputPaths |-> files[p]],
   probes |-> probes, calls |-> calls]

Init ==
  /\ platform \in {"darwin", "linux"}
  /\ iconutil \in BOOLEAN
  /\ refcounting \in BOOLEAN
  /\ fs = [p \in CandidatePaths |-> Unobserved]
  \* A fresh checkout with some master icon, or a tree whose master icon was
  \* removed: with no outputs yet, or with the outputs of an earlier build.
  /\ \/ /\ \E content \in SourceContents \cup {Absent} :
            files = [p \in FilePaths |->
                       IF p = SOURCE_ICON_PATH THEN content ELSE Absent]
        /\ dirs = {}
     \/ /\ files = [p \in FilePaths |->
                       IF p = SOURCE_ICON_PATH THEN Absent ELSE Stale(p)]
        /\ dirs = {Parent(p) : p \in OutputPaths}
  /\ tempDirs = {}
  /\ pc = "main"
  /\ run = 1
  /\ idx = 0
  /\ extraction_errors = NoErrors
  /\ temp_dir = NoDir
  /\ source = None
  /\ container = None
  /\ rounded = None
  /\ standard_mask = None
  /\ error = None
  /\ probes = <<>>
  /\ calls = <<>>
  /\ lookups = 0
  /\ written = {}
  /\ handled = {}
  /\ start = [files |-> files, dirs |-> dirs]
  /\ previous = <<>>

\* main() without its source check.
SourceExists_Unchecked == TRUE

\* SOURCE_ICON_PATH.exists()
SourceExists == files[SOURCE_ICON_PATH] # Absent

\* load_macos_standard_mask without its platform gate.
WrongPlatform_Ungated == FALSE

\* sys.platform != 'darwin'
WrongPlatform == platform # "darwin"

\* mkdir without exist_ok=True.
MkdirRaises_ExistNotOk(existing, path, exist_ok) == path \in existing

\* Path.mkdir(parents=True, exist_ok=...) raises FileExistsError only for an
\* existing directory without exist_ok.
MkdirRaises(existing, path, exist_ok) == path \in existing /\ ~exist_ok

\* A copy that decodes the source and saves it again as PNG.
CopyFile_Reencoded(f, src, dst) == [f EXCEPT ![dst] = [kind |-> "PNG", image |-> Decode(f[src])]]

\* shutil.copyfile(src, dst) on the file map.
CopyFile(f, src, dst) == [f EXCEPT ![dst] = f[src]]

\* main(), lines 264-269: the source check.
Main ==
  /\ pc = "main"
  /\ IF ~SourceExists
     THEN /\ error' = Raise("SystemExit", "main", "[branding] source icon missing", <<>>)
          /\ pc' = "done"
     ELSE /\ error' = error
          /\ pc' = "build"
  /\ UNCHANGED << env, fs, files, dirs, tempDirs, run, idx, extraction_errors,
                  temp_dir, source, container, rounded, standard_mask, probes,
                  calls, lookups, written, handled, start, previous >>

\* build_icons_from_source, lines 242-249: directories, raw copies, decode.
BuildCopies ==
  /\ pc = "build"
  /\ dirs' = dirs \cup {Parent(RENDERER_ICON_PATH), Parent(DESKTOP_ICON_PNG_PATH)}
  /\ IF \/ MkdirRaises(dirs, Parent(RENDERER_ICON_PATH), TRUE)
        \/ MkdirRaises(dirs, Parent(DESKTOP_ICON_PNG_PATH), TRUE)
     THEN /\ files' = files
          /\ written' = written
          /\ source' = source
          /\ error' = Raise("FileExistsError", "build", "mkdir", <<>>)
          /\ pc' = "done"
     ELSE IF ~SourceExists
     THEN /\ files' = files
          /\ written' = written
          /\ source' = source
          /\ error' = Raise("FileNotFoundError", "build", SOURCE_ICON_PATH, <<>>)
          /\ pc' = "done"
     ELSE /\ files' = CopyFile(CopyFile(files, SOURCE_ICON_PATH, RENDERER_ICON_PATH),
                               SOURCE_ICON_PATH, DESKTOP_SOURCE_COPY_PATH)
          /\ written' = written \cup {RENDERER_ICON_PATH, DESKTOP_SOURCE_COPY_PATH}
          /\ IF Decode(files[SOURCE_ICON_PATH]).kind = "undecodable"
             THEN /\ source' = source
                  /\ error' = Raise("OSError", "build", "cannot identify image file", <<>>)
                  /\ pc' = "done"
             ELSE /\ source' = Decode(files[SOURCE_ICON_PATH])
                  /\ error' = error
                  /\ pc' = "gate"
  /\ UNCHANGED << env, fs, tempDirs, run, idx, extraction_errors, temp_dir,
                  container, rounded, standard_mask, probes, calls, lookups,
                  handled, start, previous >>

\* load_macos_standard_mask, lines 228-233: platform gate and tool lookup.
Gate ==
  /\ pc = "gate"
  /\ IF WrongPlatform
     THEN /\ error' = Raise("RuntimeError", "gate",
                "[branding] macOS standard icon mask extraction requires macOS.", <<>>)
          /\ lookups' = lookups
          /\ pc' = "done"
          /\ idx' = idx
     ELSE /\ lookups' = lookups + 1
          /\ IF ~iconutil
             THEN /\ error' = Raise("RuntimeError", "gate",
                        "[branding] iconutil is missing, cannot extract macOS standard icon mask.",
                        <<>>)
                  /\ pc' = "done"
                  /\ idx' = idx
             ELSE /\ error' = error
                  /\ pc' = "car_loop"
                  /\ idx' = 1
  /\ UNCHANGED << env, fs, files, dirs, tempDirs, run, extraction_errors,
                  temp_dir, source, container, rounded, standard_mask, probes,
                  calls, written, handled, start, previous >>

-----------------------------------------------------------------------------
(* The candidate loops *)

\* tempfile.TemporaryDirectory(prefix=...) made for a candidate.
TempName(list, path) ==
  [prefix |-> IF list = "car" THEN "branding-icon-mask-car-"
              ELSE "branding-icon-mask-icns-",
   of |-> path]

\* temp_dir.cleanup()
Cleanup(onDisk, dir) == onDisk \ {dir}

\* The states the bundle at path may show: any when it is looked at for the
\* first time, the same as before afterwards.
Observe(list, path) ==
  IF fs[path] = Unobserved THEN MachineStates(list) ELSE {fs[path]}

Failure(path, what) == [path |-> path, what |-> what]

\* Whether the loop over a list goes on to candidate i.
LoopHas(list, i) == i <= Len(Candidates(list))

\* One pass through the head of a loader's loop: the exists() test and the
\* call of extract_iconset_from_assets_car / extract_iconset_from_icns with
\* its CalledProcessError handler (lines 87-97 and 169-179).  The extract
\* function creates the TemporaryDirectory before it runs iconutil; when
\* iconutil fails the object is dropped with the exception and nothing calls
\* cleanup(): the directory goes when the runtime finalizes the object,
\* at once under reference counting, otherwise not before the interpreter
\* exits.
Probe(list) ==
  /\ pc = IF list = "car" THEN "car_loop" ELSE "icns_loop"
  /\ LoopHas(list, idx)
  /\ LET path == Candidates(list)[idx] IN
     \E st \in Observe(list, path) :
       /\ fs' = [fs EXCEPT ![path] = st]
       /\ probes' = Append(probes, path)
       /\ IF ~st.exists
          THEN /\ extraction_errors' =
                    [extraction_errors EXCEPT ![list] = RecordFailure(@, path, <<"missing">>)]
               /\ handled' = handled \cup {Failure(path, "missing")}
               /\ idx' = idx + 1
               /\ UNCHANGED << calls, tempDirs, temp_dir, pc >>
          ELSE /\ calls' = Append(calls, path)
               /\ IF st.returncode # 0
                  THEN /\ extraction_errors' =
                            [extraction_errors EXCEPT ![list] =
                               RecordFailure(@, path, FailureReason(st.stderr, st.stdout))]
                       /\ handled' = handled \cup {Failure(path, "iconutil")}
                       /\ tempDirs' = IF refcounting THEN tempDirs
                                      ELSE tempDirs \cup {TempName(list, path)}
                       /\ idx' = idx + 1
                       /\ UNCHANGED << temp_dir, pc >>
                  ELSE /\ tempDirs' = tempDirs \cup {TempName(list, path)}
                       /\ temp_dir' = TempName(list, path)
                       /\ pc' = IF list = "car" THEN "car_try" ELSE "icns_try"
                       /\ UNCHANGED << extraction_errors, handled, idx >>
  /\ UNCHANGED << env, files, dirs, run, source, container, rounded,
                  standard_mask, error, lookups, written, start, previous >>

CarProbe == Probe("car")

IcnsProbe == Probe("icns")

\* load_macos_container_bbox, lines 99-116: the try block on the extracted
\* iconset, with its finally.
CarTry ==
  /\ pc = "car_try"
  /\ LET car_path == MACOS_ICON_CAR_CANDIDATES[idx]
         iconset == fs[car_path].iconset
         expected == ExpectedPng(iconset)
     IN /\ tempDirs' = Cleanup(tempDirs, temp_dir)
        /\ temp_dir' = NoDir
        /\ IF expected = 0
           THEN /\ extraction_errors' =
                     [extraction_errors EXCEPT !["car"] =
                        RecordFailure(@, car_path, <<"missing ", ICONSET_SOURCE_PNG_NAME>>)]
                /\ handled' = handled \cup {Failure(car_path, "missing-png")}
                /\ idx' = idx + 1
                /\ pc' = "car_loop"
                /\ UNCHANGED << container, error >>
           ELSE IF ~iconset[expected].readable
           THEN /\ error' = Raise("OSError", "car", "cannot identify image file", <<>>)
                /\ pc' = "done"
                /\ UNCHANGED << extraction_errors, handled, idx, container >>
           ELSE IF GetBBox(ContainerMask(iconset[expected])) = NoBBox
           THEN /\ extraction_errors' =
                     [extraction_errors EXCEPT !["car"] =
                        RecordFailure(@, car_path, <<"extracted alpha mask is empty">>)]
                /\ handled' = handled \cup {Failure(car_path, "empty-alpha")}
                /\ idx' = idx + 1
                /\ pc' = "car_loop"
                /\ UNCHANGED << container, error >>
           ELSE /\ container' = [bbox |-> GetBBox(ContainerMask(iconset[expected])),
                                 source |-> car_path]
                /\ pc' = "icns_loop"
                /\ idx' = 1
                /\ UNCHANGED << extraction_errors, handled, error >>
  /\ UNCHANGED << env, fs, files, dirs, run, source, rounded, standard_mask,
                  probes, calls, lookups, written, start, previous >>

\* load_macos_rounded_shape_mask, lines 181-195: the try block on the
\* extracted iconset, with its finally.  select_largest_icon_png passes over
\* every PNG it cannot open.
IcnsTry ==
  /\ pc = "icns_try"
  /\ LET icns_path == MACOS_ICON_ICNS_CANDIDATES[idx]
         iconset == fs[icns_path].iconset
         largest_png == select_largest_icon_png(iconset)
         skipped == IF Unreadable(iconset) = {} THEN {}
                    ELSE {Failure(icns_path, "unreadable-png")}
     IN /\ tempDirs' = Cleanup(tempDirs, temp_dir)
        /\ temp_dir' = NoDir
        /\ IF largest_png = 0
           THEN /\ extraction_errors' =
                     [extraction_errors EXCEPT !["icns"] =
                        RecordFailure(@, icns_path, <<"no PNG images in extracted iconset">>)]
                /\ handled' = handled \cup skipped \cup {Failure(icns_path, "no-png")}
                /\ idx' = idx + 1
                /\ pc' = "icns_loop"
                /\ UNCHANGED << rounded >>
           ELSE IF GetBBox(AlphaOf(iconset[largest_png])) = NoBBox
           THEN /\ extraction_errors' =
                     [extraction_errors EXCEPT !["icns"] =
                        RecordFailure(@, icns_path, <<"extracted alpha mask is empty">>)]
                /\ handled' = handled \cup skipped \cup {Failure(icns_path, "empty-alpha")}
                /\ idx' = idx + 1
                /\ pc' = "icns_loop"
                /\ UNCHANGED << rounded >>
           ELSE /\ rounded' = [alpha |-> AlphaOf(iconset[largest_png]),
                               source |-> icns_path]
                /\ handled' = handled \cup skipped
                /\ pc' = "reshape"
                /\ UNCHANGED << extraction_errors, idx >>
  /\ UNCHANGED << env, fs, files, dirs, run, source, container, standard_mask,
                  error, probes, calls, lookups, written, start, previous >>

\* Lines 118-122 and 197-201: the loop ended without a return.
Exhausted(list) ==
  /\ pc = IF list = "car" THEN "car_loop" ELSE "icns_loop"
  /\ ~LoopHas(list, idx)
  /\ error' = Raise("RuntimeError", list,
                    IF list = "car" THEN CarErrorHead ELSE IcnsErrorHead,
                    FormatErrors(extraction_errors[list]))
  /\ pc' = "done"
  /\ UNCHANGED << env, fs, files, dirs, tempDirs, run, idx, extraction_errors,
                  temp_dir, source, container, rounded, standard_mask, probes,
                  calls, lookups, written, handled, start, previous >>

CarExhausted == Exhausted("car")

IcnsExhausted == Exhausted("icns")

-----------------------------------------------------------------------------
(* Reshape, composite, outputs *)

\* load_macos_standard_mask, line 237.
Reshape ==
  /\ pc = "reshape"
  /\ LET r == reshape_mask_to_bbox(rounded.alpha, container.bbox)
     IN IF r.kind = "raise"
        THEN /\ error' = r.error
             /\ pc' = "done"
             /\ standard_mask' = standard_mask
        ELSE /\ standard_mask' = r.mask
             /\ pc' = "compose"
             /\ error' = error
  /\ UNCHANGED << env, fs, files, dirs, tempDirs, run, idx, extraction_errors,
                  temp_dir, source, container, rounded, probes, calls, lookups,
                  written, handled, start, previous >>

\* build_icons_from_source, lines 251-260: the composite and its three saves.
Compose ==
  /\ pc = "compose"
  /\ LET rounded_desktop_icon == build_desktop_icon_with_mask(source, standard_mask)
     IN files' = [files EXCEPT
                    ![DESKTOP_ICON_PNG_PATH] = Save(rounded_desktop_icon, "PNG"),
                    ![DESKTOP_ICON_ICO_PATH] = Save(rounded_desktop_icon, "ICO"),
                    ![DESKTOP_ICON_ICNS_PATH] = Save(rounded_desktop_icon, "ICNS")]
  /\ written' = written \cup
       {DESKTOP_ICON_PNG_PATH, DESKTOP_ICON_ICO_PATH, DESKTOP_ICON_ICNS_PATH}
  /\ pc' = "done"
  /\ UNCHANGED << env, fs, dirs, tempDirs, run, idx, extraction_errors,
                  temp_dir, source, container, rounded, standard_mask, error,
                  probes, calls, lookups, handled, start, previous >>

\* The process has exited (its pending finalizers ran) and the script is
\* invoked again on the same machine and the same files.
Rerun ==
  /\ pc = "done"
  /\ run < MaxRuns
  /\ run' = run + 1
  /\ previous' = Append(previous, Outcome)
  /\ start' = [files |-> files, dirs |-> dirs]
  /\ tempDirs' = {}
  /\ pc' = "main"
  /\ idx' = 0
  /\ extraction_errors' = NoErrors
  /\ temp_dir' = NoDir
  /\ source' = None
  /\ container' = None
  /\ rounded' = None
  /\ standard_mask' = None
  /\ error' = None
  /\ probes' = <<>>
  /\ calls' = <<>>
  /\ lookups' = 0
  /\ written' = {}
  /\ handled' = {}
  /\ UNCHANGED << env, fs, files, dirs >>

Next ==
  \/ Main
  \/ BuildCopies
  \/ Gate
  \/ CarProbe
  \/ CarTry
  \/ CarExhausted
  \/ IcnsProbe
  \/ IcnsTry
  \/ IcnsExhausted
  \/ Reshape
  \/ Compose
  \/ Rerun

Spec == Init /\ [][Next]_vars

-----------------------------------------------------------------------------
(* Properties *)

Lists == {"car", "icns"}

ListOf(path) == IF path \in Range(MACOS_ICON_CAR_CANDIDATES) THEN "car" ELSE "icns"

CandidateList(list) ==
  IF list = "car" THEN MACOS_ICON_CAR_CANDIDATES ELSE MACOS_ICON_ICNS_CANDIDATES

NoDuplicates(s) == \A i, j \in DOMAIN s : s[i] = s[j] => i = j

IsPrefix(s, t) == Len(s) <= Len(t) /\ s = SubSeq(t, 1, Len(s))

\* The probes of the run that fall into a list, in the order they were made.
ProbesOf(list) == SelectSeq(probes, LAMBDA p : ListOf(p) = list)

Area(png) == png.w * png.h

\* A bundle state with which a candidate fails for one of the reasons the
\* loaders name: path missing, iconutil error, expected PNG absent (car) or
\* no PNG to use (icns), empty alpha.
FailsAsListed(list, st) ==
  \/ ~st.exists
  \/ st.returncode # 0
  \/ /\ list = "car"
     /\ \/ \A i \in DOMAIN st.iconset : st.iconset[i].name # ICONSET_SOURCE_PNG_NAME
        \/ \E i \in DOMAIN st.iconset :
             /\ st.iconset[i].name = ICONSET_SOURCE_PNG_NAME
             /\ st.iconset[i].readable
             /\ st.iconset[i].bbox = NoBBox
  \/ /\ list = "icns"
     /\ \/ \A i \in DOMAIN st.iconset : ~st.iconset[i].readable
        \/ \E i \in DOMAIN st.iconset :
             /\ st.iconset[i].readable
             /\ st.iconset[i].bbox = NoBBox
             /\ \A j \in DOMAIN st.iconset :
                  st.iconset[j].readable =>
                    \/ Area(st.iconset[j]) < Area(st.iconset[i])
                    \/ Area(st.iconset[j]) = Area(st.iconset[i]) /\ j >= i

\* A bundle state with which a candidate succeeds.
Succeeds(list, st) ==
  /\ st.exists
  /\ st.returncode = 0
  /\ ~FailsAsListed(list, st)
  /\ list = "car" =>
       \A i \in DOMAIN st.iconset :
         st.iconset[i].name = ICONSET_SOURCE_PNG_NAME => st.iconset[i].readable

\* The run went through every candidate of the list and each failed.
AllFailed(list) ==
  /\ pc = "done"
  /\ \A i \in DOMAIN CandidateList(list) :
       /\ \E k \in DOMAIN probes : probes[k] = CandidateList(list)[i]
       /\ FailsAsListed(list, fs[CandidateList(list)[i]])

AllSpace(t) == \A k \in DOMAIN t : IsSpace(t[k])

\* r is text without its leading and trailing white space.
IsStripped(r, text) ==
  /\ r # <<>>
  /\ ~IsSpace(r[1])
  /\ ~IsSpace(r[Len(r)])
  /\ \E a \in 0..Len(text) :
       /\ a + Len(r) <= Len(text)
       /\ SubSeq(text, a + 1, a + Len(r)) = r
       /\ AllSpace(SubSeq(text, 1, a))
       /\ AllSpace(SubSeq(text, a + Len(r) + 1, Len(text)))

\* A message entry names the candidate's path and its reason: "missing" for
\* a missing bundle; for a failed iconutil its stderr (its stdout when stderr
\* is empty) without surrounding white space, or "iconutil failed" when that
\* leaves nothing; some text otherwise.
EntryNames(line, path, st) ==
  LET reason == SubSeq(line, 4, Len(line))
      said == IF st.stderr # <<>> THEN st.stderr ELSE st.stdout
  IN /\ Len(line) >= 4
     /\ line[1] = "  - "
     /\ line[2] = path
     /\ line[3] = ": "
     /\ ~st.exists => reason = <<"missing">>
     /\ st.exists /\ st.returncode # 0 =>
          IF AllSpace(said) THEN reason = <<"iconutil failed">>
          ELSE IsStripped(reason, said)
     /\ st.exists /\ st.returncode = 0 => reason # <<"missing">>

\* C1: when every candidate of a list fails (missing, iconutil error, expected
\* PNG absent or no PNG, empty alpha) the loader raises a RuntimeError whose
\* message holds exactly one entry per candidate, in list order, each naming
\* the candidate's path and its reason.
C1_ExhaustionEnumeratesEveryCandidate ==
  \A list \in Lists :
    AllFailed(list) =>
      /\ error.kind = "RuntimeError"
      /\ error.at = list
      /\ error.head = (IF list = "car" THEN CarErrorHead ELSE IcnsErrorHead)
      /\ Len(error.lines) = Len(CandidateList(list))
      /\ \A i \in DOMAIN CandidateList(list) :
           EntryNames(error.lines[i], CandidateList(list)[i], fs[CandidateList(list)[i]])

C1_Witness ==
  /\ AllFailed("icns")
  /\ \E i \in DOMAIN MACOS_ICON_ICNS_CANDIDATES :
       ~fs[MACOS_ICON_ICNS_CANDIDATES[i]].exists
  /\ \E i \in DOMAIN MACOS_ICON_ICNS_CANDIDATES :
       /\ fs[MACOS_ICON_ICNS_CANDIDATES[i]].exists
       /\ fs[MACOS_ICON_ICNS_CANDIDATES[i]].returncode # 0

\* C2: every temporary extraction directory is deleted before the loader goes
\* on to the next candidate and before it returns or raises: outside the try
\* block that reads the extracted iconset no such directory is on disk.
C2_TempDirsDeleted ==
  pc \notin {"car_try", "icns_try"} => tempDirs = {}

\* C3: a mask returned by reshape_mask_to_bbox is 0 at the top-left pixel of
\* the target box, and a run that fails the corner validation has written no
\* output file.
C3_CornerCheckedBeforeAnyOutput ==
  /\ standard_mask # None =>
       GetPixel(standard_mask, container.bbox[1], container.bbox[2]) = 0
  /\ (error # None /\ error.at = "reshape") => written = {}

\* C4: malformed extracted data (expected image missing, empty alpha, image
\* that cannot be decoded) fails its candidate only: an error raised in a
\* loader is the aggregated error of an exhausted list.
C4_MalformedDataFailsCandidateOnly ==
  (error # None /\ error.at \in Lists) =>
    /\ error.kind = "RuntimeError"
    /\ Len(error.lines) = Len(CandidateList(error.at))

\* C5: after a successful run the five outputs exist, the two copies are
\* byte-identical to the source file, the source file is as it was, and the
\* PNG, ICO and ICNS outputs are saves of the masked composite.
C5_OutputsOfSuccessfulRun ==
  (pc = "done" /\ error = None) =>
    /\ \A p \in OutputPaths : files[p] # Absent /\ Parent(p) \in dirs
    /\ files[RENDERER_ICON_PATH] = files[SOURCE_ICON_PATH]
    /\ files[DESKTOP_SOURCE_COPY_PATH] = files[SOURCE_ICON_PATH]
    /\ files[SOURCE_ICON_PATH] = start.files[SOURCE_ICON_PATH]
    /\ files[SOURCE_ICON_PATH] \in SourceContents
    /\ \A fmt \in {"PNG", "ICO", "ICNS"} :
         LET p == CASE fmt = "PNG" -> DESKTOP_ICON_PNG_PATH
                    [] fmt = "ICO" -> DESKTOP_ICON_ICO_PATH
                    [] fmt = "ICNS" -> DESKTOP_ICON_ICNS_PATH
         IN /\ files[p].kind = fmt
            /\ files[p].image.mask = standard_mask
            /\ files[p].image.pixels = source.pixels
            /\ files[p].image.w = ICON_CANVAS_SIZE
            /\ files[p].image.h = ICON_CANVAS_SIZE

C5_Witness ==
  /\ pc = "done"
  /\ error = None
  /\ run > 1
  /\ written = OutputPaths

\* C6: a second run on the same source and the same machine ends as the run
\* before it: same error or same five output contents, same candidates
\* looked at and extracted.
C6_RerunGivesSameOutcome ==
  (pc = "done" /\ run > 1) => Outcome = previous[run - 1]

C6_Witness ==
  /\ pc = "done"
  /\ run > 1
  /\ error = None
  /\ Len(probes) > 2
  /\ previous[run - 1].error = None

\* C7: every failure the run catches and continues from leaves a diagnostic
\* entry for its candidate, and no candidate is tried twice.
C7_NothingSwallowed ==
  /\ \A f \in handled :
       \E k \in DOMAIN extraction_errors[ListOf(f.path)] :
         extraction_errors[ListOf(f.path)][k].path = f.path
  /\ NoDuplicates(probes)

\* C8: off macOS the run fails at the platform gate: the tool is not looked
\* up, no candidate is probed, iconutil is not run, no temporary directory is
\* made, and a run that reaches the gate ends with the platform error.
C8_PlatformGateFirst ==
  platform # "darwin" =>
    /\ lookups = 0
    /\ probes = <<>>
    /\ calls = <<>>
    /\ tempDirs = {}
    /\ temp_dir = NoDir
    /\ \A p \in CandidatePaths : fs[p] = Unobserved
    /\ pc \in {"main", "build", "gate", "done"}
    /\ pc = "done" =>
         /\ error # None
         /\ error.at \in {"main", "build", "gate"}
         /\ error.at = "gate" =>
              /\ error.kind = "RuntimeError"
              /\ error.head = "[branding] macOS standard icon mask extraction requires macOS."
         /\ source # None => error.at = "gate"

C8_Witness ==
  /\ platform # "darwin"
  /\ iconutil
  /\ pc = "done"
  /\ source # None
  /\ error.at = "gate"

\* C9: with the master icon missing the run ends at once with the
\* source-missing error and changes nothing: no directory created, no output
\* written or overwritten, no candidate probed, iconutil not run.
C9_MissingSourceChangesNothing ==
  files[SOURCE_ICON_PATH] = Absent =>
    /\ pc \in {"main", "done"}
    /\ pc = "done" =>
         /\ error.kind = "SystemExit"
         /\ error.head = "[branding] source icon missing"
    /\ files = start.files
    /\ dirs = start.dirs
    /\ written = {}
    /\ probes = <<>>
    /\ calls = <<>>
    /\ lookups = 0
    /\ tempDirs = {}

C9_Witness ==
  /\ files[SOURCE_ICON_PATH] = Absent
  /\ pc = "done"
  /\ files[DESKTOP_ICON_PNG_PATH] = Stale(DESKTOP_ICON_PNG_PATH)
  /\ platform = "darwin"

\* C10: each list is walked in list order, each candidate at most once, and
\* the loader returns the lowest-index candidate that succeeds without
\* looking at a later one; the Assets.car list is settled before the
\* AppIcon.icns list is started, and an exhausted Assets.car list leaves the
\* AppIcon.icns list untouched.
C10_OrderedFirstSuccess ==
  LET car == ProbesOf("car")
      icns == ProbesOf("icns")
  IN /\ NoDuplicates(probes)
     /\ probes = car \o icns
     /\ IsPrefix(car, MACOS_ICON_CAR_CANDIDATES)
     /\ IsPrefix(icns, MACOS_ICON_ICNS_CANDIDATES)
     /\ calls = SelectSeq(probes, LAMBDA p : fs[p].exists)
     /\ icns # <<>> => container # None
     /\ (error # None /\ error.at = "car") => icns = <<>>
     /\ container # None =>
          /\ car # <<>>
          /\ container.source = car[Len(car)]
          /\ Succeeds("car", fs[container.source])
          /\ \A k \in 1..(Len(car) - 1) : ~Succeeds("car", fs[car[k]])
     /\ rounded # None =>
          /\ icns # <<>>
          /\ rounded.source = icns[Len(icns)]
          /\ Succeeds("icns", fs[rounded.source])
          /\ \A k \in 1..(Len(icns) - 1) : ~Succeeds("icns", fs[icns[k]])

C10_Witness ==
  /\ pc = "done"
  /\ error = None
  /\ Len(ProbesOf("car")) > 1
  /\ Len(ProbesOf("car")) < Len(MACOS_ICON_CAR_CANDIDATES) + 1
  /\ Len(ProbesOf("icns")) = 1
  /\ Len(MACOS_ICON_ICNS_CANDIDATES) > 1

====
